---- MODULE Spec2Model ----
(***************************************************************************)
(* Model of @pleme/error-boundary: the error management state machine      *)
(* (machines/error.machine.ts), the toast provider built on it             *)
(* (context/ErrorToastProvider.tsx), the legacy ErrorProvider              *)
(* (context/ErrorContext.tsx), the ErrorBoundary component                 *)
(* (components/ErrorBoundary.tsx) and RadixErrorBoundary                   *)
(* (radix/ErrorBoundary.tsx).                                              *)
(***************************************************************************)
EXTENDS Integers, Sequences, FiniteSets, TLC

VARIABLES
    errors,            \* ErrorMachineContext.errors
    globalError,       \* ErrorMachineContext.globalError
    isOnline,          \* ErrorMachineContext.isOnline
    maxErrors,         \* ErrorMachineContext.maxErrors
    now,               \* the wall clock read by Date.now()
    nLogs,             \* console.error entries written
    nAdd,              \* ADD_ERROR events processed
    nGlobal,           \* SET_GLOBAL_ERROR events with a non-null payload processed
    nThrown,           \* events whose assigner threw instead of returning a context
    lastEvent,         \* type of the last event the machine processed
    created,           \* the records ADD_ERROR has appended, in order (kept by AddOnly)
    latestError,       \* ErrorToastProviderInner: latestError of the last render
    effectPending,     \* ErrorToastProviderInner: the toast effect of that render is still to run
    previousErrorRef,  \* ErrorToastProviderInner: previousErrorRef.current
    notified,          \* ids passed to onError / enqueueSnackbar, in order
    pErrors,           \* ErrorProvider: the errors state of the last render
    pUpdates,          \* ErrorProvider: setErrors updaters queued since that render
    pCreated,          \* ErrorProvider: the records addError has built so far
    pMaxErrors,        \* ErrorProvider: the maxErrors prop
    pWindow,           \* ErrorProvider: the deduplicationWindow prop
    rProps,            \* RadixErrorBoundary: this.props
    rState,            \* RadixErrorBoundary: this.state
    rOutput,           \* RadixErrorBoundary: what render() returned last
    rLast,             \* RadixErrorBoundary: the method React called last
    rCaught,           \* RadixErrorBoundary: the error componentDidCatch is still to get
    rCalls,            \* RadixErrorBoundary: calls componentDidCatch has made, in order
    rThrows,           \* RadixErrorBoundary: errors its descendants have thrown
    bProps,            \* ErrorBoundary: this.props
    bPrevProps,        \* ErrorBoundary: the props of the previous commit
    bState,            \* ErrorBoundary: this.state
    bOutput,           \* ErrorBoundary: what render() returned last
    bLast,             \* ErrorBoundary: the method React called last
    bCaught,           \* ErrorBoundary: the error componentDidCatch is still to get
    bCalls,            \* ErrorBoundary: callbacks and console.error calls made, in order
    bThrows,           \* ErrorBoundary: errors its descendants have thrown
    calls              \* calls of the hooks and render functions, with what they gave

machineVars == <<errors, globalError, isOnline, maxErrors>>
countVars == <<nLogs, nAdd, nGlobal, nThrown>>
toastVars == <<latestError, effectPending, previousErrorRef, notified>>
providerVars == <<pErrors, pUpdates, pCreated, pMaxErrors, pWindow>>
radixVars == <<rProps, rState, rOutput, rLast, rCaught, rCalls, rThrows>>
boundaryVars == <<bProps, bPrevProps, bState, bOutput, bLast, bCaught, bCalls, bThrows>>
vars ==
    <<machineVars, now, countVars, lastEvent, created, toastVars, providerVars, radixVars,
      boundaryVars, calls>>

\* ---------------------------------------------------------------- bounds
MaxAdds == 2
MaxGlobals == 1
MaxClock == 1
MaxCap == 2
MaxRun == 3
MaxPending == 2
MaxThrows == 2
MaxKeys == 2
MaxCalls == 2

\* ------------------------------------------------------ program constants
DefaultMaxErrors == 50
DefaultDeduplicationWindow == 1000

\* null, for a record and for an id; undefined, for a prop that is not given
Null == [null |-> TRUE]
NullId == <<>>
Undefined == [undefined |-> TRUE]

\* JavaScript truthiness of a prop value that is null, undefined or an object.
Truthy(v) == v \notin {Null, Undefined}

Min(a, b) == IF a < b THEN a ELSE b
Max(a, b) == IF a > b THEN a ELSE b

\* ------------------------------------------------------------ input sets
\* The outcomes of Math.random().toString(36).substr(2, 9).
Rnd == {"k3x", "q9z"}

\* What JSON.stringify does with a context value: "plain" serialises,
\* "cyclic" (an object that refers to itself) makes it throw a TypeError.
OfflinePayload ==
    [type |-> "network", message |-> "offline", recoverable |-> TRUE, context |-> "none"]

RequiredField ==
    [type |-> "validation", message |-> "Required field", recoverable |-> TRUE,
     context |-> "none"]

Boom ==
    [type |-> "general", message |-> "boom", recoverable |-> FALSE, context |-> "plain"]

\* CreateErrorInput values whose context JSON.stringify accepts.
Payloads == {RequiredField}
MorePayloads == {RequiredField, Boom}

\* A payload that carries an id and a timestamp of the caller's.
PayloadWithId ==
    [type |-> "general", message |-> "boom", recoverable |-> FALSE, context |-> "none",
     id |-> <<-1, "own">>, timestamp |-> -1]

CyclicPayload ==
    [type |-> "general", message |-> "boom", recoverable |-> FALSE, context |-> "cyclic"]

\* An AppError built by the caller of setGlobalError.
ForeignError(ctx) ==
    [id |-> <<0, "k3x">>, type |-> "checkout", message |-> "fatal", recoverable |-> FALSE,
     context |-> ctx, timestamp |-> 0]

MaxErrorsPayloads == 1..MaxCap

\* ------------------------------------------------------- pure functions
\* `error_${Date.now()}_${Math.random().toString(36).substr(2, 9)}`: the two
\* parts are joined by "_" and hold no "_" themselves, so the string is the pair.
generateErrorId(t, r) == <<t, r>>

\* JSON.stringify(error.context, null, 2) throws on a cyclic context.
StringifyThrows(ctx) == ctx = "cyclic"

\* logErrorToConsole: one console.error entry, unless building its arguments throws.
logErrorToConsole(n, error) ==
    IF StringifyThrows(error.context) THEN n ELSE n + 1

\* The bug of keeping the oldest records: slice(0, maxErrors).
Slice_KeepsOldest(s, start) ==
    SubSeq(s, 1, IF start < 0 THEN (IF Len(s) < -start THEN Len(s) ELSE -start) ELSE Len(s))

\* Array.prototype.slice(start), end omitted.
Slice(s, start) ==
    LET n == Len(s)
        k == IF start < 0 THEN Max(n + start, 0) ELSE Min(start, n)
    IN  SubSeq(s, k + 1, n)

\* Array.prototype.filter((error) => error.id !== id)
RECURSIVE FilterId(_, _)
FilterId(s, id) ==
    IF s = <<>> THEN <<>>
    ELSE IF Head(s).id # id THEN <<Head(s)>> \o FilterId(Tail(s), id)
         ELSE FilterId(Tail(s), id)

\* Object spread {...base, ...extra}: the keys of extra override those of base.
Spread(base, extra) ==
    IF extra = Undefined THEN base
    ELSE [k \in DOMAIN base \cup DOMAIN extra |->
             IF k \in DOMAIN extra THEN extra[k] ELSE base[k]]

\* The bug of letting the payload's own id and timestamp win.
NewError_PayloadWins(p, tId, r, tStamp) ==
    Spread([id |-> generateErrorId(tId, r), timestamp |-> tStamp], p)

\* The record ADD_ERROR builds: the payload spread, then id and timestamp.
NewError(p, tId, r, tStamp) ==
    Spread(p, [id |-> generateErrorId(tId, r), timestamp |-> tStamp])

\* The bug of putting the new record in front.
AddToErrors_NewestFirst(errs, max, e) == Slice(<<e>> \o errs, -max)

\* [...context.errors, newError].slice(-context.maxErrors)
AddToErrors(errs, max, e) == Slice(Append(errs, e), -max)

\* state?.context?.errors || []
getErrors(state) == IF state = Undefined THEN <<>> ELSE state.context.errors

\* The bug of returning the oldest record.
getLatestError_Oldest(errs) == IF Len(errs) > 0 THEN errs[1] ELSE Null

getLatestError(errs) == IF Len(errs) > 0 THEN errs[Len(errs)] ELSE Null

Ids(errs) == {errs[i].id : i \in 1..Len(errs)}

\* ------------------------------------------------------------------ Init
\* The machine's initial context; isOnline is navigator.onLine.
InitState ==
    /\ errors = <<>>
    /\ globalError = Null
    /\ isOnline \in BOOLEAN
    /\ maxErrors = DefaultMaxErrors
    /\ now = 0
    /\ nLogs = 0
    /\ nAdd = 0
    /\ nGlobal = 0
    /\ nThrown = 0
    /\ lastEvent = "init"
    /\ created = <<>>
    /\ latestError = Null
    /\ effectPending = FALSE
    /\ previousErrorRef = NullId
    /\ notified = <<>>
    /\ pErrors = <<>>
    /\ pUpdates = <<>>
    /\ pCreated = <<>>
    /\ rState = [hasError |-> FALSE, error |-> Null]
    /\ rOutput = Undefined
    /\ rLast = "constructor"
    /\ rCaught = Null
    /\ rCalls = <<>>
    /\ rThrows = 0
    /\ bPrevProps = Null
    /\ bState = [hasError |-> FALSE, error |-> Null, errorInfo |-> Null]
    /\ bOutput = Undefined
    /\ bLast = "constructor"
    /\ bCaught = Null
    /\ bCalls = <<>>
    /\ bThrows = 0
    /\ calls = <<>>

\* props.children
Children == [children |-> TRUE]

\* The components with no optional prop given.
DefaultRadixProps ==
    [children |-> Children, fallback |-> Undefined, fallbackProps |-> Undefined,
     onError |-> FALSE, captureException |-> FALSE]

DefaultBoundaryProps ==
    [children |-> Children, fallback |-> Undefined, onError |-> Undefined, onReset |-> FALSE,
     resetKeys |-> Undefined]

\* The providers' props at their defaults.
Init ==
    /\ InitState
    /\ pMaxErrors = DefaultMaxErrors
    /\ pWindow = DefaultDeduplicationWindow
    /\ rProps = DefaultRadixProps
    /\ bProps = DefaultBoundaryProps

\* ------------------------------------------------------- machine events
\* Each event is the machine's transition for it; toastVars and created are
\* left to the specification that sends the event.

\* ADD_ERROR: generateErrorId() reads the clock, then timestamp: Date.now()
\* reads it again, dt later.
ADD_ERROR(p, r, dt) ==
    /\ LET newError == NewError(p, now, r, now + dt)
       IN  IF StringifyThrows(p.context)
           THEN \* logErrorToConsole throws inside the assigner: nothing is assigned
                /\ nThrown' = nThrown + 1
                /\ UNCHANGED <<errors, nLogs>>
           ELSE /\ nLogs' = logErrorToConsole(nLogs, newError)
                /\ errors' = AddToErrors(errors, maxErrors, newError)
                /\ UNCHANGED nThrown
    /\ now' = now + dt
    /\ nAdd' = nAdd + 1
    /\ lastEvent' = "ADD_ERROR"
    /\ UNCHANGED <<globalError, isOnline, maxErrors, nGlobal>>

\* The bug of clearing globalError when its record is removed.
REMOVE_ERROR_ClearsGlobal(id) ==
    /\ errors' = FilterId(errors, id)
    /\ globalError' = IF globalError # Null /\ globalError.id = id THEN Null ELSE globalError
    /\ lastEvent' = "REMOVE_ERROR"
    /\ UNCHANGED <<isOnline, maxErrors, now, countVars>>

REMOVE_ERROR(id) ==
    /\ errors' = FilterId(errors, id)
    /\ lastEvent' = "REMOVE_ERROR"
    /\ UNCHANGED <<globalError, isOnline, maxErrors, now, countVars>>

\* The bug of resetting the whole context on CLEAR_ERRORS.
CLEAR_ERRORS_ResetsContext ==
    /\ errors' = <<>>
    /\ globalError' = Null
    /\ lastEvent' = "CLEAR_ERRORS"
    /\ UNCHANGED <<isOnline, maxErrors, now, countVars>>

CLEAR_ERRORS ==
    /\ errors' = <<>>
    /\ lastEvent' = "CLEAR_ERRORS"
    /\ UNCHANGED <<globalError, isOnline, maxErrors, now, countVars>>

SET_GLOBAL_ERROR(payload) ==
    /\ IF payload # Null
       THEN /\ nGlobal' = nGlobal + 1
            /\ IF StringifyThrows(payload.context)
               THEN /\ nThrown' = nThrown + 1
                    /\ UNCHANGED <<globalError, nLogs>>
               ELSE /\ nLogs' = logErrorToConsole(nLogs, payload)
                    /\ globalError' = payload
                    /\ UNCHANGED nThrown
       ELSE /\ globalError' = payload
            /\ UNCHANGED <<nLogs, nGlobal, nThrown>>
    /\ lastEvent' = "SET_GLOBAL_ERROR"
    /\ UNCHANGED <<errors, isOnline, maxErrors, now, nAdd>>

SET_ONLINE_STATUS(payload) ==
    /\ isOnline' = payload
    /\ lastEvent' = "SET_ONLINE_STATUS"
    /\ UNCHANGED <<errors, globalError, maxErrors, now, countVars>>

SET_MAX_ERRORS(payload) ==
    /\ maxErrors' = payload
    /\ lastEvent' = "SET_MAX_ERRORS"
    /\ UNCHANGED <<errors, globalError, isOnline, now, countVars>>

\* ------------------------------------------------------------- the clock
\* Date.now() is the wall clock: it advances, and an adjustment sets it back.
Tick ==
    /\ now < MaxClock
    /\ now' = now + 1
    /\ UNCHANGED <<machineVars, countVars, lastEvent, created, toastVars, providerVars,
                   radixVars, boundaryVars, calls>>

ClockSetBack ==
    /\ now > 0
    /\ now' = now - 1
    /\ UNCHANGED <<machineVars, countVars, lastEvent, created, toastVars, providerVars,
                   radixVars, boundaryVars, calls>>

\* ------------------------------------------- Spec: the machine, any events
SendAddError ==
    /\ nAdd < MaxAdds
    /\ \E p \in Payloads, r \in Rnd, dt \in 0..1 :
          now + dt <= MaxClock /\ ADD_ERROR(p, r, dt)
    /\ UNCHANGED <<created, toastVars, providerVars, radixVars, boundaryVars, calls>>

SendRemoveError ==
    /\ \E id \in Ids(errors) \cup {generateErrorId(0, "k3x")} : REMOVE_ERROR(id)
    /\ UNCHANGED <<created, toastVars, providerVars, radixVars, boundaryVars, calls>>

SendClearErrors ==
    /\ CLEAR_ERRORS
    /\ UNCHANGED <<created, toastVars, providerVars, radixVars, boundaryVars, calls>>

SendSetGlobalError ==
    /\ \E payload \in {Null, ForeignError("none")} :
          (payload # Null => nGlobal < MaxGlobals) /\ SET_GLOBAL_ERROR(payload)
    /\ UNCHANGED <<created, toastVars, providerVars, radixVars, boundaryVars, calls>>

SendSetOnlineStatus ==
    /\ \E b \in BOOLEAN : SET_ONLINE_STATUS(b)
    /\ UNCHANGED <<created, toastVars, providerVars, radixVars, boundaryVars, calls>>

SendSetMaxErrors ==
    /\ \E n \in MaxErrorsPayloads : SET_MAX_ERRORS(n)
    /\ UNCHANGED <<created, toastVars, providerVars, radixVars, boundaryVars, calls>>

Next ==
    \/ SendAddError
    \/ SendRemoveError
    \/ SendClearErrors
    \/ SendSetGlobalError
    \/ SendSetOnlineStatus
    \/ SendSetMaxErrors
    \/ Tick
    \/ ClockSetBack

Spec == Init /\ [][Next]_vars

\* ------------- SpecAddOnly: maxErrors is set once, then only ADD_ERROR events
InitialSetMaxErrors ==
    /\ nAdd = 0
    /\ \E n \in MaxErrorsPayloads : SET_MAX_ERRORS(n)
    /\ UNCHANGED <<created, toastVars, providerVars, radixVars, boundaryVars, calls>>

\* created records what the event built, apart from what the machine stored.
RunAddError ==
    /\ nAdd < MaxRun
    /\ \E p \in MorePayloads, r \in Rnd, dt \in 0..1 :
          /\ now + dt <= MaxClock
          /\ ADD_ERROR(p, r, dt)
          /\ created' = Append(created, NewError(p, now, r, now + dt))
    /\ UNCHANGED <<toastVars, providerVars, radixVars, boundaryVars, calls>>

NextAddOnly ==
    \/ InitialSetMaxErrors
    \/ RunAddError
    \/ Tick
    \/ ClockSetBack

SpecAddOnly == Init /\ [][NextAddOnly]_vars

\* ------------- SpecHistory: the machine, with the records ADD_ERROR built
\* created keeps every record an ADD_ERROR event built, as it was built.
HistoryAddError ==
    /\ nAdd < MaxAdds
    /\ \E p \in {RequiredField, PayloadWithId}, r \in {"k3x"}, dt \in 0..1 :
          /\ now + dt <= MaxClock
          /\ ADD_ERROR(p, r, dt)
          /\ created' = Append(created, NewError(p, now, r, now + dt))
    /\ UNCHANGED <<toastVars, providerVars, radixVars, boundaryVars, calls>>

HistorySetMaxErrors ==
    /\ \E n \in 0..MaxCap : SET_MAX_ERRORS(n)
    /\ UNCHANGED <<created, toastVars, providerVars, radixVars, boundaryVars, calls>>

NextHistory ==
    \/ HistoryAddError
    \/ SendRemoveError
    \/ SendClearErrors
    \/ HistorySetMaxErrors
    \/ SendSetGlobalError
    \/ SendSetOnlineStatus
    \/ Tick

SpecHistory == Init /\ [][NextHistory]_vars

\* ------------- SpecCtx: the machine, payloads with any context value
SendAddErrorAnyContext ==
    /\ nAdd < MaxAdds
    /\ \E p \in Payloads \cup {CyclicPayload}, r \in Rnd, dt \in 0..1 :
          now + dt <= MaxClock /\ ADD_ERROR(p, r, dt)
    /\ UNCHANGED <<created, toastVars, providerVars, radixVars, boundaryVars, calls>>

SendSetGlobalErrorAnyContext ==
    /\ \E payload \in {Null, ForeignError("none"), ForeignError("cyclic")} :
          (payload # Null => nGlobal < MaxGlobals) /\ SET_GLOBAL_ERROR(payload)
    /\ UNCHANGED <<created, toastVars, providerVars, radixVars, boundaryVars, calls>>

NextCtx ==
    \/ SendAddErrorAnyContext
    \/ SendRemoveError
    \/ SendClearErrors
    \/ SendSetGlobalErrorAnyContext
    \/ SendSetOnlineStatus
    \/ SendSetMaxErrors
    \/ Tick
    \/ ClockSetBack

SpecCtx == Init /\ [][NextCtx]_vars

\* ------------- SpecToast: ErrorToastProviderInner around the machine
\* The context API and the window listeners send events to the machine; the
\* component re-renders and its toast effect runs after the render.
addError ==
    /\ nAdd < MaxAdds
    /\ \E p \in Payloads, r \in Rnd, dt \in 0..1 :
          now + dt <= MaxClock /\ ADD_ERROR(p, r, dt)
    /\ UNCHANGED <<created, toastVars, providerVars, radixVars, boundaryVars, calls>>

\* send REMOVE_ERROR, then closeSnackbar(id)
removeError ==
    /\ \E id \in Ids(errors) \cup {generateErrorId(0, "k3x")} : REMOVE_ERROR(id)
    /\ UNCHANGED <<created, toastVars, providerVars, radixVars, boundaryVars, calls>>

\* closeSnackbar for each record, then send CLEAR_ERRORS
clearErrors ==
    /\ CLEAR_ERRORS
    /\ UNCHANGED <<created, toastVars, providerVars, radixVars, boundaryVars, calls>>

setGlobalError ==
    /\ \E payload \in {Null, ForeignError("none")} :
          (payload # Null => nGlobal < MaxGlobals) /\ SET_GLOBAL_ERROR(payload)
    /\ UNCHANGED <<created, toastVars, providerVars, radixVars, boundaryVars, calls>>

handleOnline ==
    /\ SET_ONLINE_STATUS(TRUE)
    /\ UNCHANGED <<created, toastVars, providerVars, radixVars, boundaryVars, calls>>

\* send SET_ONLINE_STATUS(false), then send ADD_ERROR with the offline record
handleOffline ==
    /\ nAdd < MaxAdds
    /\ \E r \in Rnd, dt \in 0..1 :
          /\ now + dt <= MaxClock
          /\ LET newError == NewError(OfflinePayload, now, r, now + dt)
             IN  /\ isOnline' = FALSE
                 /\ nLogs' = logErrorToConsole(nLogs, newError)
                 /\ errors' = AddToErrors(errors, maxErrors, newError)
          /\ now' = now + dt
    /\ nAdd' = nAdd + 1
    /\ lastEvent' = "ADD_ERROR"
    /\ UNCHANGED <<globalError, maxErrors, nGlobal, nThrown, created, toastVars, providerVars,
                   radixVars, boundaryVars, calls>>

\* useEffect(() => send SET_MAX_ERRORS(maxErrors), [maxErrors, send]): on mount
\* and whenever the prop changes.
MaxErrorsEffect ==
    /\ \E n \in MaxErrorsPayloads : SET_MAX_ERRORS(n)
    /\ UNCHANGED <<created, toastVars, providerVars, radixVars, boundaryVars, calls>>

\* A render reads latestError from the machine's snapshot; its toast effect is
\* scheduled when latestError changed, or when one of the callbacks among the
\* effect's dependencies did. The effects of a render run before the next one.
Render ==
    /\ ~effectPending
    /\ latestError' = getLatestError(errors)
    /\ effectPending' \in (IF latestError' # latestError THEN {TRUE} ELSE BOOLEAN)
    /\ UNCHANGED <<machineVars, now, countVars, lastEvent, created, previousErrorRef,
                   notified, providerVars, radixVars, boundaryVars, calls>>

\* The toast effect: onError and enqueueSnackbar for a latestError whose id is
\* not the one in previousErrorRef.
ToastEffect ==
    /\ effectPending
    /\ effectPending' = FALSE
    /\ IF latestError # Null /\ latestError.id # previousErrorRef
       THEN /\ previousErrorRef' = latestError.id
            /\ notified' = Append(notified, latestError.id)
       ELSE UNCHANGED <<previousErrorRef, notified>>
    /\ UNCHANGED <<machineVars, now, countVars, lastEvent, created, latestError,
                   providerVars, radixVars, boundaryVars, calls>>

NextToast ==
    \/ addError
    \/ removeError
    \/ clearErrors
    \/ setGlobalError
    \/ handleOnline
    \/ handleOffline
    \/ MaxErrorsEffect
    \/ Render
    \/ ToastEffect
    \/ Tick
    \/ ClockSetBack

SpecToast == Init /\ [][NextToast]_vars

\* ------------- SpecProvider: the legacy ErrorProvider (React state)
\* pErrors is the errors state of the last render: what the callbacks created
\* in that render close over. setErrors queues an updater; the next render
\* applies the queued updaters in order.
InitProvider ==
    /\ InitState
    /\ pMaxErrors \in {DefaultMaxErrors} \cup (1..MaxCap)
    /\ pWindow \in {1, DefaultDeduplicationWindow}
    /\ rProps = DefaultRadixProps
    /\ bProps = DefaultBoundaryProps

\* errors.some(...): a record of the closed-over errors with the same message
\* and type, less than deduplicationWindow before timestamp.
isDuplicate(errs, input, timestamp, window) ==
    \E i \in 1..Len(errs) :
        /\ errs[i].message = input.message
        /\ errs[i].type = input.type
        /\ timestamp - errs[i].timestamp < window

\* The updaters given to setErrors.
ApplyUpdate(prev, u) ==
    CASE u.op = "add" -> AddToErrors(prev, u.max, u.error)
      [] u.op = "remove" -> FilterId(prev, u.id)
      [] u.op = "clear" -> <<>>

RECURSIVE ApplyUpdates(_, _)
ApplyUpdates(prev, us) ==
    IF us = <<>> THEN prev ELSE ApplyUpdates(ApplyUpdate(prev, Head(us)), Tail(us))

ErrorProvider_addError(input, r) ==
    /\ IF isDuplicate(pErrors, input, now, pWindow)
       THEN UNCHANGED <<pUpdates, pCreated>>
       ELSE LET appError == NewError(input, now, r, now)
            IN  /\ pUpdates' = Append(pUpdates,
                                      [op |-> "add", error |-> appError, max |-> pMaxErrors])
                /\ pCreated' = Append(pCreated, appError)
    /\ UNCHANGED <<pErrors, pMaxErrors, pWindow>>

ErrorProvider_removeError(id) ==
    /\ pUpdates' = Append(pUpdates, [op |-> "remove", id |-> id])
    /\ UNCHANGED <<pErrors, pCreated, pMaxErrors, pWindow>>

ErrorProvider_clearAllErrors ==
    /\ pUpdates' = Append(pUpdates, [op |-> "clear"])
    /\ UNCHANGED <<pErrors, pCreated, pMaxErrors, pWindow>>

ErrorProvider_Render ==
    /\ pUpdates # <<>>
    /\ pErrors' = ApplyUpdates(pErrors, pUpdates)
    /\ pUpdates' = <<>>
    /\ UNCHANGED <<pCreated, pMaxErrors, pWindow>>

otherThanProvider ==
    <<machineVars, now, countVars, lastEvent, created, toastVars, radixVars, boundaryVars, calls>>

CallAddError ==
    /\ Len(pCreated) < MaxAdds
    /\ Len(pUpdates) < MaxPending
    /\ \E input \in MorePayloads, r \in Rnd : ErrorProvider_addError(input, r)
    /\ UNCHANGED otherThanProvider

CallRemoveError ==
    /\ Len(pUpdates) < MaxPending
    /\ \E id \in Ids(pErrors) : ErrorProvider_removeError(id)
    /\ UNCHANGED otherThanProvider

CallClearErrors ==
    /\ Len(pUpdates) < MaxPending
    /\ ErrorProvider_clearAllErrors
    /\ UNCHANGED otherThanProvider

ProviderRender ==
    /\ ErrorProvider_Render
    /\ UNCHANGED otherThanProvider

NextProvider ==
    \/ CallAddError
    \/ CallRemoveError
    \/ CallClearErrors
    \/ ProviderRender
    \/ Tick
    \/ ClockSetBack

SpecProvider == InitProvider /\ [][NextProvider]_vars

\* ------------- SpecScenario: capacity 2, three records, a removal, capacity 0
\* The events are sent in this order to a fresh machine; created keeps the
\* records A, B, C as the events built them.
ScenarioSetCapacity ==
    /\ lastEvent = "init"
    /\ SET_MAX_ERRORS(2)
    /\ UNCHANGED <<created, toastVars, providerVars, radixVars, boundaryVars, calls>>

ScenarioAdd ==
    /\ lastEvent \in {"SET_MAX_ERRORS", "ADD_ERROR"}
    /\ maxErrors = 2
    /\ nAdd < 3
    /\ \E p \in MorePayloads, r \in Rnd, dt \in 0..1 :
          /\ now + dt <= MaxClock
          /\ ADD_ERROR(p, r, dt)
          /\ created' = Append(created, NewError(p, now, r, now + dt))
    /\ UNCHANGED <<toastVars, providerVars, radixVars, boundaryVars, calls>>

ScenarioRemove ==
    /\ lastEvent = "ADD_ERROR"
    /\ nAdd = 3
    /\ REMOVE_ERROR(created[2].id)
    /\ UNCHANGED <<created, toastVars, providerVars, radixVars, boundaryVars, calls>>

ScenarioSetCapacityZero ==
    /\ lastEvent = "REMOVE_ERROR"
    /\ SET_MAX_ERRORS(0)
    /\ UNCHANGED <<created, toastVars, providerVars, radixVars, boundaryVars, calls>>

NextScenario ==
    \/ ScenarioSetCapacity
    \/ ScenarioAdd
    \/ ScenarioRemove
    \/ ScenarioSetCapacityZero
    \/ Tick
    \/ ClockSetBack

SpecScenario == Init /\ [][NextScenario]_vars

\* ------------- SpecRadix: RadixErrorBoundary (radix/ErrorBoundary.tsx)
\* React constructs the component, calls render(), renders what it returned,
\* and calls getDerivedStateFromError when a descendant throws; it renders the
\* boundary again with the derived state and calls componentDidCatch when that
\* render is committed.

\* The Errors descendants throw.
Errors == {[message |-> "Test error"], [message |-> "Again"]}

\* The ErrorInfo React hands to componentDidCatch.
ErrorInfo == [componentStack |-> "at ThrowError"]

\* fallback?: ReactNode is not given, null, or an element.
RadixProps ==
    [children : {Children},
     fallback : {Undefined, Null, [element |-> "Custom fallback"]},
     fallbackProps : {Undefined, [title |-> "Custom Title"]},
     onError : BOOLEAN,
     captureException : BOOLEAN]

InitRadix ==
    /\ InitState
    /\ pMaxErrors = DefaultMaxErrors
    /\ pWindow = DefaultDeduplicationWindow
    /\ rProps \in RadixProps
    /\ bProps = DefaultBoundaryProps

\* The bug of rendering the children whatever the state.
Radix_render_AlwaysChildren(state, props) == Children

Radix_render(state, props) ==
    IF state.hasError
    THEN IF Truthy(props.fallback)
         THEN props.fallback
         ELSE Spread([component |-> "ErrorFallback", error |-> state.error,
                      onRetry |-> "handleRetry"], props.fallbackProps)
    ELSE props.children

Radix_getDerivedStateFromError(error) == [hasError |-> TRUE, error |-> error]

\* The bug of calling onError before captureException.
Radix_didCatchCalls_OnErrorFirst(props, error, errorInfo) ==
    <<[fn |-> "console.error", args |-> <<error>>],
      [fn |-> "console.error", args |-> <<errorInfo.componentStack>>]>>
    \o (IF props.onError
        THEN <<[fn |-> "onError", args |-> <<error, errorInfo>>]>> ELSE <<>>)
    \o (IF props.captureException
        THEN <<[fn |-> "captureException",
                args |-> <<error, [componentStack |-> errorInfo.componentStack,
                                   errorBoundary |-> "radix"]>>]>>
        ELSE <<>>)

\* The calls componentDidCatch(error, errorInfo) makes, in order.
Radix_didCatchCalls(props, error, errorInfo) ==
    <<[fn |-> "console.error", args |-> <<error>>],
      [fn |-> "console.error", args |-> <<errorInfo.componentStack>>]>>
    \o (IF props.captureException
        THEN <<[fn |-> "captureException",
                args |-> <<error, [componentStack |-> errorInfo.componentStack,
                                   errorBoundary |-> "radix"]>>]>>
        ELSE <<>>)
    \o (IF props.onError
        THEN <<[fn |-> "onError", args |-> <<error, errorInfo>>]>> ELSE <<>>)

\* The bug of a retry that leaves the error in the state.
Radix_retryState_KeepsError(state) == [state EXCEPT !.hasError = FALSE]

\* this.setState({ hasError: false, error: null })
Radix_retryState(state) == [state EXCEPT !.hasError = FALSE, !.error = Null]

otherThanRadix ==
    <<machineVars, now, countVars, lastEvent, created, toastVars, providerVars, boundaryVars,
      calls>>

RadixRender ==
    /\ rLast \in {"constructor", "getDerivedStateFromError", "handleRetry"}
    /\ rOutput' = Radix_render(rState, rProps)
    /\ rLast' = "render"
    /\ UNCHANGED <<rProps, rState, rCaught, rCalls, rThrows>>
    /\ UNCHANGED otherThanRadix

\* The children render() returned have rendered without throwing.
RadixChildrenRendered ==
    /\ rLast = "render"
    /\ rOutput = Children
    /\ rLast' = "childrenRendered"
    /\ UNCHANGED <<rProps, rState, rOutput, rCaught, rCalls, rThrows>>
    /\ UNCHANGED otherThanRadix

\* A descendant throws while it renders, in the render of the boundary or in a
\* later update of its own.
RadixChildThrows ==
    /\ rLast \in {"render", "childrenRendered"}
    /\ rOutput = Children
    /\ rThrows < MaxThrows
    /\ \E error \in Errors :
          /\ rState' = Radix_getDerivedStateFromError(error)
          /\ rCaught' = [error |-> error, errorInfo |-> ErrorInfo]
    /\ rThrows' = rThrows + 1
    /\ rLast' = "getDerivedStateFromError"
    /\ UNCHANGED <<rProps, rOutput, rCalls>>
    /\ UNCHANGED otherThanRadix

Radix_componentDidCatch ==
    /\ rLast = "render"
    /\ rCaught # Null
    /\ rCalls' = rCalls \o Radix_didCatchCalls(rProps, rCaught.error, rCaught.errorInfo)
    /\ rCaught' = Null
    /\ rLast' = "componentDidCatch"
    /\ UNCHANGED <<rProps, rState, rOutput, rThrows>>
    /\ UNCHANGED otherThanRadix

\* The retry button of the ErrorFallback render() returned is clicked.
Radix_handleRetry ==
    /\ rLast = "componentDidCatch"
    /\ "onRetry" \in DOMAIN rOutput
    /\ rState' = Radix_retryState(rState)
    /\ rLast' = "handleRetry"
    /\ UNCHANGED <<rProps, rOutput, rCaught, rCalls, rThrows>>
    /\ UNCHANGED otherThanRadix

NextRadix ==
    \/ RadixRender
    \/ RadixChildrenRendered
    \/ RadixChildThrows
    \/ Radix_componentDidCatch
    \/ Radix_handleRetry

SpecRadix == InitRadix /\ [][NextRadix]_vars

\* ------------- SpecBoundary: ErrorBoundary (components/ErrorBoundary.tsx)
\* React calls render(), renders what it returned and commits it: the commit
\* of an update calls componentDidUpdate(prevProps), and the commit after a
\* caught error then calls componentDidCatch. A setState in a lifecycle method
\* makes React render again.

\* The values in resetKeys.
Keys == {"user-1", "user-2"}

KeyArrays == UNION {[1..n -> Keys] : n \in 0..MaxKeys}

\* resetKeys?: unknown[] is not given, or an array.
ResetKeysValues == {Undefined} \cup {[keys |-> k] : k \in KeyArrays}

\* onError?: not given, or a callback that returns, or one that throws.
OnErrorValues == {Undefined, [behaviour |-> "returns"], [behaviour |-> "throws"]}

BoundaryProps ==
    [children : {Children},
     fallback : {Undefined, [component |-> "CustomErrorFallback"]},
     onError : OnErrorValues,
     onReset : BOOLEAN,
     resetKeys : ResetKeysValues]

InitBoundary ==
    /\ InitState
    /\ pMaxErrors = DefaultMaxErrors
    /\ pWindow = DefaultDeduplicationWindow
    /\ rProps = DefaultRadixProps
    /\ bProps \in BoundaryProps

DefaultFallback == [component |-> "DefaultFallback"]

\* render(): the fallback component only with hasError, error and errorInfo
\* all set; onLine is navigator.onLine.
ErrorBoundary_render(state, props, onLine) ==
    LET FallbackComponent ==
            IF props.fallback = Undefined THEN DefaultFallback ELSE props.fallback
    IN  IF state.hasError /\ Truthy(state.error) /\ Truthy(state.errorInfo)
        THEN [component |-> FallbackComponent.component, error |-> state.error,
              errorInfo |-> state.errorInfo, resetError |-> "reset", isOnline |-> onLine]
        ELSE props.children

\* getDerivedStateFromError returns Partial<ErrorBoundaryState>, merged into
\* the state: errorInfo stays what it was.
ErrorBoundary_getDerivedStateFromError(state, error) ==
    [state EXCEPT !.hasError = TRUE, !.error = error]

\* resetKeys.some((key, index) => key !== prevProps.resetKeys?.[index]); beyond
\* the end of the previous array the element is undefined, which no key is.
hasResetKeyChanged(resetKeys, prevResetKeys) ==
    \E index \in 1..Len(resetKeys.keys) :
        IF index <= Len(prevResetKeys.keys)
        THEN resetKeys.keys[index] # prevResetKeys.keys[index]
        ELSE TRUE

\* The bug of calling onReset twice.
ErrorBoundary_resetCalls_Twice(props) ==
    IF props.onReset
    THEN <<[fn |-> "onReset", args |-> <<>>], [fn |-> "onReset", args |-> <<>>]>> ELSE <<>>

\* reset(): onReset?.(), then setState with everything cleared.
ErrorBoundary_resetCalls(props) ==
    IF props.onReset THEN <<[fn |-> "onReset", args |-> <<>>]>> ELSE <<>>

ErrorBoundary_resetState == [hasError |-> FALSE, error |-> Null, errorInfo |-> Null]

\* this.props.onError?.(error, errorInfo) throws what the callback throws.
ErrorBoundary_onErrorThrows(props) ==
    Truthy(props.onError) /\ props.onError.behaviour = "throws"

\* The calls componentDidCatch(error, errorInfo) makes, in order: onError
\* (if given), and console.error when control gets there.
ErrorBoundary_didCatchCalls(props, error, errorInfo) ==
    (IF Truthy(props.onError)
     THEN <<[fn |-> "onError", args |-> <<error, errorInfo>>]>> ELSE <<>>)
    \o (IF ErrorBoundary_onErrorThrows(props)
        THEN <<>>
        ELSE <<[fn |-> "console.error",
                args |-> <<error.message, errorInfo.componentStack>>]>>)

otherThanBoundary ==
    <<machineVars, now, countVars, lastEvent, created, toastVars, providerVars, radixVars,
      calls>>

\* Nothing is being rendered or committed.
BoundaryIdle == bLast \in {"mounted", "componentDidUpdate"} /\ bCaught = Null

ErrorBoundaryRender ==
    /\ \/ bLast \in {"constructor", "getDerivedStateFromError", "propsUpdate"}
       \/ bLast \in {"componentDidCatch", "reset"} /\ bCaught = Null
    /\ bOutput' = ErrorBoundary_render(bState, bProps, isOnline)
    /\ bLast' = "render"
    /\ UNCHANGED <<bProps, bPrevProps, bState, bCaught, bCalls, bThrows>>
    /\ UNCHANGED otherThanBoundary

\* What render() returned has rendered without throwing.
ErrorBoundaryRendered ==
    /\ bLast = "render"
    /\ bLast' = "rendered"
    /\ UNCHANGED <<bProps, bPrevProps, bState, bOutput, bCaught, bCalls, bThrows>>
    /\ UNCHANGED otherThanBoundary

\* The commit of the first render: no componentDidUpdate.
ErrorBoundaryMount ==
    /\ bLast = "rendered"
    /\ bPrevProps = Null
    /\ bPrevProps' = bProps
    /\ bLast' = "mounted"
    /\ UNCHANGED <<bProps, bState, bOutput, bCaught, bCalls, bThrows>>
    /\ UNCHANGED otherThanBoundary

ErrorBoundary_componentDidUpdate ==
    /\ bLast = "rendered"
    /\ bPrevProps # Null
    /\ IF /\ bState.hasError
          /\ Truthy(bProps.resetKeys)
          /\ Truthy(bPrevProps.resetKeys)
          /\ hasResetKeyChanged(bProps.resetKeys, bPrevProps.resetKeys)
       THEN /\ bCalls' = bCalls \o ErrorBoundary_resetCalls(bProps)
            /\ bState' = ErrorBoundary_resetState
            /\ bLast' = "reset"
       ELSE /\ bLast' = "componentDidUpdate"
            /\ UNCHANGED <<bCalls, bState>>
    /\ bPrevProps' = bProps
    /\ UNCHANGED <<bProps, bOutput, bCaught, bThrows>>
    /\ UNCHANGED otherThanBoundary

\* componentDidCatch: setState({ errorInfo }), onError?.(), console.error. An
\* error thrown out of componentDidCatch is the boundary's own: React hands it
\* to the boundaries above and unmounts this one.
ErrorBoundary_componentDidCatch ==
    /\ bLast \in {"mounted", "componentDidUpdate", "reset"}
    /\ bCaught # Null
    /\ bState' = [bState EXCEPT !.errorInfo = bCaught.errorInfo]
    /\ bCalls' = bCalls \o ErrorBoundary_didCatchCalls(bProps, bCaught.error, bCaught.errorInfo)
    /\ bCaught' = Null
    /\ bLast' = IF ErrorBoundary_onErrorThrows(bProps) THEN "unmounted"
                ELSE "componentDidCatch"
    /\ UNCHANGED <<bProps, bPrevProps, bOutput, bThrows>>
    /\ UNCHANGED otherThanBoundary

\* A descendant throws while it renders. React hands the error to the boundary
\* through getDerivedStateFromError; when the boundary is already rendering
\* with a caught error (it returned the children again and they threw again)
\* the error is not this boundary's any more and React unmounts it.
ErrorBoundaryChildThrows ==
    /\ bOutput = Children
    /\ bLast = "render" \/ BoundaryIdle
    /\ bThrows < MaxThrows
    /\ bThrows' = bThrows + 1
    /\ IF bCaught # Null
       THEN /\ bLast' = "unmounted"
            /\ bCaught' = Null
            /\ UNCHANGED bState
       ELSE /\ \E error \in Errors :
                  /\ bState' = ErrorBoundary_getDerivedStateFromError(bState, error)
                  /\ bCaught' = [error |-> error, errorInfo |-> ErrorInfo]
            /\ bLast' = "getDerivedStateFromError"
    /\ UNCHANGED <<bProps, bPrevProps, bOutput, bCalls>>
    /\ UNCHANGED otherThanBoundary

\* The fallback component calls resetError.
ErrorBoundary_reset ==
    /\ BoundaryIdle
    /\ "resetError" \in DOMAIN bOutput
    /\ bCalls' = bCalls \o ErrorBoundary_resetCalls(bProps)
    /\ bState' = ErrorBoundary_resetState
    /\ bLast' = "reset"
    /\ UNCHANGED <<bProps, bPrevProps, bOutput, bCaught, bThrows>>
    /\ UNCHANGED otherThanBoundary

\* The parent renders the boundary with a resetKeys prop of its choice.
ErrorBoundaryPropsUpdate ==
    /\ BoundaryIdle
    /\ \E k \in ResetKeysValues : bProps' = [bProps EXCEPT !.resetKeys = k]
    /\ bLast' = "propsUpdate"
    /\ UNCHANGED <<bPrevProps, bState, bOutput, bCaught, bCalls, bThrows>>
    /\ UNCHANGED otherThanBoundary

NextBoundary ==
    \/ ErrorBoundaryRender
    \/ ErrorBoundaryRendered
    \/ ErrorBoundaryMount
    \/ ErrorBoundary_componentDidUpdate
    \/ ErrorBoundary_componentDidCatch
    \/ ErrorBoundaryChildThrows
    \/ ErrorBoundary_reset
    \/ ErrorBoundaryPropsUpdate

SpecBoundary == InitBoundary /\ [][NextBoundary]_vars

\* ------------- SpecBridge: the window events of the Apollo link
\* A string is the tuple of its characters.

\* String.prototype.includes(part)
Includes(str, part) ==
    \E i \in 1..(Len(str) - Len(part) + 1) : SubSeq(str, i, i + Len(part) - 1) = part

UpperToLower ==
    [A |-> "a", B |-> "b", C |-> "c", D |-> "d", E |-> "e", F |-> "f", G |-> "g", H |-> "h", I |-> "i",
     J |-> "j", K |-> "k", L |-> "l", M |-> "m", N |-> "n", O |-> "o", P |-> "p", Q |-> "q", R |-> "r",
     S |-> "s", T |-> "t", U |-> "u", V |-> "v", W |-> "w", X |-> "x", Y |-> "y", Z |-> "z"]

\* String.prototype.toLowerCase()
toLowerCase(str) ==
    [i \in 1..Len(str) |-> IF str[i] \in DOMAIN UpperToLower THEN UpperToLower[str[i]]
                           ELSE str[i]]

\* "Login"
Str_Login ==
    <<"L", "o", "g", "i", "n">>

\* "Register"
Str_Register ==
    <<"R", "e", "g", "i", "s", "t", "e", "r">>

\* "RefreshToken"
Str_RefreshToken ==
    <<"R", "e", "f", "r", "e", "s", "h", "T", "o", "k", "e", "n">>

\* "Logout"
Str_Logout ==
    <<"L", "o", "g", "o", "u", "t">>

\* "Me"
Str_Me ==
    <<"M", "e">>

\* "RequestPasswordReset"
Str_RequestPasswordReset ==
    <<"R", "e", "q", "u", "e", "s", "t", "P", "a", "s", "s", "w", "o", "r", "d", "R", "e",
      "s", "e", "t">>

\* "ResetPassword"
Str_ResetPassword ==
    <<"R", "e", "s", "e", "t", "P", "a", "s", "s", "w", "o", "r", "d">>

\* "GetMenu"
Str_GetMenu ==
    <<"G", "e", "t", "M", "e", "n", "u">>

\* "GetCart"
Str_GetCart ==
    <<"G", "e", "t", "C", "a", "r", "t">>

\* "invalid credentials"
Phrase_InvalidCredentials ==
    <<"i", "n", "v", "a", "l", "i", "d", " ", "c", "r", "e", "d", "e", "n", "t", "i", "a",
      "l", "s">>

\* "credenciais inválidas"
Phrase_CredenciaisInvalidas ==
    <<"c", "r", "e", "d", "e", "n", "c", "i", "a", "i", "s", " ", "i", "n", "v", "á", "l",
      "i", "d", "a", "s">>

\* "redefinição de senha solicitada recentemente"
Phrase_RedefinicaoRecente ==
    <<"r", "e", "d", "e", "f", "i", "n", "i", "ç", "ã", "o", " ", "d", "e", " ", "s", "e",
      "n", "h", "a", " ", "s", "o", "l", "i", "c", "i", "t", "a", "d", "a", " ", "r", "e",
      "c", "e", "n", "t", "e", "m", "e", "n", "t", "e">>

\* "password reset requested too recently"
Phrase_ResetTooRecently ==
    <<"p", "a", "s", "s", "w", "o", "r", "d", " ", "r", "e", "s", "e", "t", " ", "r", "e",
      "q", "u", "e", "s", "t", "e", "d", " ", "t", "o", "o", " ", "r", "e", "c", "e", "n",
      "t", "l", "y">>

\* "Invalid credentials"
Msg_InvalidCredentials ==
    <<"I", "n", "v", "a", "l", "i", "d", " ", "c", "r", "e", "d", "e", "n", "t", "i", "a",
      "l", "s">>

\* "Internal server error"
Msg_InternalServerError ==
    <<"I", "n", "t", "e", "r", "n", "a", "l", " ", "s", "e", "r", "v", "e", "r", " ", "e",
      "r", "r", "o", "r">>

\* "Password reset requested too recently"
Msg_ResetTooRecently ==
    <<"P", "a", "s", "s", "w", "o", "r", "d", " ", "r", "e", "s", "e", "t", " ", "r", "e",
      "q", "u", "e", "s", "t", "e", "d", " ", "t", "o", "o", " ", "r", "e", "c", "e", "n",
      "t", "l", "y">>

\* "Failed to fetch"
Msg_FailedToFetch ==
    <<"F", "a", "i", "l", "e", "d", " ", "t", "o", " ", "f", "e", "t", "c", "h">>

authOperations == <<Str_Login, Str_Register, Str_RefreshToken, Str_Logout, Str_Me>>

passwordResetOperations == <<Str_RequestPasswordReset, Str_ResetPassword>>

credentialPhrases == <<Phrase_InvalidCredentials, Phrase_CredenciaisInvalidas>>

rateLimitPhrases == <<Phrase_RedefinicaoRecente, Phrase_ResetTooRecently>>

\* event.detail.operation: not given, or an operation name.
OperationValues ==
    {Undefined} \cup {[chars |-> c] : c \in {Str_Login, Str_Me, Str_ResetPassword, Str_GetMenu,
                                             Str_GetCart}}

\* event.detail.message: not given, or a message.
MessageValues ==
    {Undefined} \cup {[chars |-> c] : c \in {Msg_InvalidCredentials, Msg_InternalServerError,
                                             Msg_ResetTooRecently}}

\* list.some((part) => value?.includes(part)); undefined?.includes(..) is
\* undefined, which is falsy.
SomeIncluded(list, value) ==
    /\ value # Undefined
    /\ \E k \in 1..Len(list) : Includes(value.chars, list[k])

\* message?.toLowerCase().includes(a) || message?.toLowerCase().includes(b)
SomeIncludedLowerCase(list, value) ==
    /\ value # Undefined
    /\ \E k \in 1..Len(list) : Includes(toLowerCase(value.chars), list[k])

\* The early returns of handleApolloGraphQLError.
handleApolloGraphQLError_skips(detail) ==
    \/ SomeIncluded(authOperations, detail.operation)
    \/ SomeIncluded(passwordResetOperations, detail.operation)
    \/ SomeIncludedLowerCase(credentialPhrases, detail.message)
    \/ SomeIncludedLowerCase(rateLimitPhrases, detail.message)

NetworkPayload(detail) ==
    [type |-> "network",
     message |-> "Erro de conexão. Verifique sua internet e tente novamente.",
     details |-> <<detail.operation, detail.error.message>>,
     recoverable |-> TRUE, context |-> "none"]

GraphQLPayload(detail) ==
    [type |-> "general", message |-> "Erro no servidor. Nossa equipe foi notificada.",
     details |-> <<detail.operation, detail.path, detail.message>>,
     recoverable |-> TRUE, context |-> "none"]

otherThanMachineAndCalls == <<created, toastVars, providerVars, radixVars, boundaryVars>>

\* window receives 'apollo-network-error': calls keeps the events dispatched.
handleApolloNetworkError ==
    /\ Len(calls) < MaxCalls
    /\ \E operation \in OperationValues, r \in Rnd :
          LET detail == [error |-> [message |-> Msg_FailedToFetch], operation |-> operation]
          IN  /\ calls' = Append(calls, [fn |-> "apollo-network-error", args |-> detail])
              /\ ADD_ERROR(NetworkPayload(detail), r, 0)
    /\ UNCHANGED otherThanMachineAndCalls

\* window receives 'apollo-graphql-error'.
handleApolloGraphQLError ==
    /\ Len(calls) < MaxCalls
    /\ \E operation \in OperationValues, message \in MessageValues, r \in Rnd :
          LET detail == [message |-> message, operation |-> operation, path |-> "menu"]
          IN  /\ calls' = Append(calls, [fn |-> "apollo-graphql-error", args |-> detail])
              /\ IF handleApolloGraphQLError_skips(detail)
                 THEN UNCHANGED <<machineVars, now, countVars, lastEvent>>
                 ELSE ADD_ERROR(GraphQLPayload(detail), r, 0)
    /\ UNCHANGED otherThanMachineAndCalls

NextBridge ==
    \/ handleApolloNetworkError
    \/ handleApolloGraphQLError
    \/ Tick

SpecBridge == Init /\ [][NextBridge]_vars

\* ------------- SpecCalls: the toast options, ErrorFallback and the hooks
\* Functions of their arguments alone; calls keeps each call with its result.
otherThanCalls ==
    <<machineVars, now, countVars, lastEvent, created, toastVars, providerVars, radixVars,
      boundaryVars>>

ErrorTypes == {"network", "validation", "cart", "checkout", "general", "auth"}

\* AppError records with the optional recoverable and action left out or given.
ToastErrors ==
    {Spread(Spread([id |-> generateErrorId(0, "k3x"), type |-> t,
                    message |-> "Connection failed", timestamp |-> 0], rec), act) :
        t \in ErrorTypes,
        rec \in {Undefined, [recoverable |-> TRUE], [recoverable |-> FALSE]},
        act \in {Undefined, [action |-> [label |-> "Retry"]]}}

\* The bug of showing every record as an error.
errorTypeToVariant_AlwaysError(type) == "error"

errorTypeToVariant(type) ==
    CASE type = "validation" -> "warning"
      [] type \in {"network", "auth", "cart", "checkout", "general"} -> "error"
      [] OTHER -> "error"

\* latestError.recoverable ? 5000 : 8000, recoverable being optional
autoHideDuration(error) ==
    IF "recoverable" \in DOMAIN error /\ error.recoverable THEN 5000 ELSE 8000

\* enqueueSnackbar(latestError.message, { variant, key, autoHideDuration, action })
enqueueSnackbarCall(latest) ==
    [fn |-> "enqueueSnackbar",
     args |-> latest,
     result |-> [message |-> latest.message,
                 variant |-> errorTypeToVariant(latest.type),
                 key |-> latest.id,
                 autoHideDuration |-> autoHideDuration(latest),
                 action |-> "action" \in DOMAIN latest]]

\* The toast effect's call for a new latestError.
ShowToast ==
    /\ Len(calls) < MaxCalls
    /\ \E latest \in ToastErrors : calls' = Append(calls, enqueueSnackbarCall(latest))
    /\ UNCHANGED otherThanCalls

\* window.location.hostname, for isDevelopment()
Hostnames == {"localhost", "app.example.com"}

isDevelopment(hostname) == hostname \in {"localhost", "127.0.0.1"}

\* ErrorFallbackProps with onRetry, showDetails and error left out or given.
ErrorFallbackPropsSet ==
    {Spread(Spread(Spread([title |-> "Algo deu errado"], retry), details), err) :
        retry \in {Undefined, [onRetry |-> "onRetry"]},
        details \in {Undefined, [showDetails |-> TRUE], [showDetails |-> FALSE]},
        err \in {Undefined, [error |-> Null], [error |-> [message |-> "Test error"]]}}

\* The bug of showing the details whenever an error is given.
ErrorFallback_showsDetails_IgnoresFlag(props, hostname) ==
    "error" \in DOMAIN props /\ props.error # Null

\* {showDetails && error && <details>}, showDetails = isDevelopment() by default
ErrorFallback_showsDetails(props, hostname) ==
    LET showDetails ==
            IF "showDetails" \in DOMAIN props THEN props.showDetails
            ELSE isDevelopment(hostname)
    IN  showDetails /\ "error" \in DOMAIN props /\ props.error # Null

\* {onRetry && <button onClick={onRetry}>}
ErrorFallback_retryButton(props) ==
    IF "onRetry" \in DOMAIN props THEN [onClick |-> props.onRetry] ELSE Undefined

RenderErrorFallback ==
    /\ Len(calls) < MaxCalls
    /\ \E props \in ErrorFallbackPropsSet, hostname \in Hostnames :
          calls' = Append(calls,
                          [fn |-> "ErrorFallback",
                           args |-> [props |-> props, hostname |-> hostname],
                           result |-> [retryButton |-> ErrorFallback_retryButton(props),
                                       details |-> ErrorFallback_showsDetails(props, hostname)]])
    /\ UNCHANGED otherThanCalls

\* The retry button of the ErrorFallback rendered last is clicked.
ClickRetry ==
    /\ calls # <<>>
    /\ Len(calls) <= MaxCalls
    /\ calls[Len(calls)].fn = "ErrorFallback"
    /\ calls[Len(calls)].result.retryButton # Undefined
    /\ calls' = Append(calls, [fn |-> calls[Len(calls)].result.retryButton.onClick,
                               args |-> <<>>, result |-> Undefined])
    /\ UNCHANGED otherThanCalls

\* What the enclosing providers give to the two contexts.
ContextValue(provider) == [provider |-> provider, addError |-> "addError"]

\* useContext: the value of the nearest enclosing Provider, or the default
\* given to createContext.
useContext(default, enclosed, value) == IF enclosed THEN value ELSE default

\* The bug of testing for null a context whose default is undefined.
useErrorContext_TestsNull(enclosed) ==
    LET context == useContext(Undefined, enclosed, ContextValue("ErrorProvider"))
    IN  IF context = Null
        THEN [throws |-> "useErrorContext must be used within an ErrorProvider"]
        ELSE [returns |-> context]

useErrorToast(enclosed) ==
    LET context == useContext(Null, enclosed, ContextValue("ErrorToastProvider"))
    IN  IF context = Null
        THEN [throws |-> "useErrorToast must be used within an ErrorToastProvider"]
        ELSE [returns |-> context]

useErrorContext(enclosed) ==
    LET context == useContext(Undefined, enclosed, ContextValue("ErrorProvider"))
    IN  IF context = Undefined
        THEN [throws |-> "useErrorContext must be used within an ErrorProvider"]
        ELSE [returns |-> context]

\* A component under the given providers calls the hooks.
CallUseErrorToast ==
    /\ Len(calls) < MaxCalls
    /\ \E toastProvider \in BOOLEAN, errorProvider \in BOOLEAN :
          calls' = Append(calls,
                          [fn |-> "useErrorToast",
                           args |-> [ErrorToastProvider |-> toastProvider,
                                     ErrorProvider |-> errorProvider],
                           result |-> useErrorToast(toastProvider)])
    /\ UNCHANGED otherThanCalls

CallUseErrorContext ==
    /\ Len(calls) < MaxCalls
    /\ \E toastProvider \in BOOLEAN, errorProvider \in BOOLEAN :
          calls' = Append(calls,
                          [fn |-> "useErrorContext",
                           args |-> [ErrorToastProvider |-> toastProvider,
                                     ErrorProvider |-> errorProvider],
                           result |-> useErrorContext(errorProvider)])
    /\ UNCHANGED otherThanCalls

NextCalls ==
    \/ ShowToast
    \/ RenderErrorFallback
    \/ ClickRetry
    \/ CallUseErrorToast
    \/ CallUseErrorContext

SpecCalls == Init /\ [][NextCalls]_vars

\* ================================================================ claims
\* The last n elements of s.
LastN(s, n) == [i \in 1..n |-> s[Len(s) - n + i]]

\* s without its i-th element.
RemoveAt(s, i) == [j \in 1..(Len(s) - 1) |-> IF j < i THEN s[j] ELSE s[j + 1]]

\* The step is the machine processing an event of this type, told by the
\* bookkeeping alone: lastEvent records it, and neither the clock nor the
\* provider's render state moves.
EventStep(type) ==
    /\ lastEvent' = type
    /\ now' = now
    /\ toastVars' = toastVars
    /\ providerVars' = providerVars

\* C1: in every reachable state of the machine (SET_MAX_ERRORS payloads all
\* positive) errors holds at most maxErrors entries.
C1_LenAtMostMaxErrors == Len(errors) <= maxErrors

\* C2: with maxErrors fixed at c > 0 and only ADD_ERROR events, after k events
\* errors is exactly the min(k, c) most recently created records, in order.
C2_MostRecentKept ==
    maxErrors > 0 =>
        /\ Len(created) = nAdd
        /\ Len(errors) = Min(nAdd, maxErrors)
        /\ errors = LastN(created, Min(nAdd, maxErrors))

\* C2's case: more records were added than maxErrors, so the oldest were evicted.
C2_Witness ==
    /\ maxErrors = 2
    /\ nAdd = 3
    /\ Len(errors) = 2
    /\ errors = <<created[2], created[3]>>

\* C3: SET_MAX_ERRORS(n) with n below the current length truncates errors to
\* its n most recent records in the same transition.
C3_SetMaxErrorsTruncates ==
    [][\A n \in MaxErrorsPayloads :
          (SET_MAX_ERRORS(n) /\ n < Len(errors)) =>
              (maxErrors' = n /\ errors' = LastN(errors, n))]_vars

\* C4: the number of console.error entries equals the number of ADD_ERROR
\* events plus the number of SET_GLOBAL_ERROR events with a non-null payload.
C4_OneLogPerEvent == nLogs = nAdd + nGlobal

\* C5: SET_ONLINE_STATUS(false) in a state with isOnline true sets isOnline
\* false and appends one recoverable network record; SET_ONLINE_STATUS(true)
\* sets isOnline true and appends nothing.
C5_OfflineAppendsNetworkRecord ==
    [][/\ (SET_ONLINE_STATUS(FALSE) /\ isOnline) =>
              /\ isOnline' = FALSE
              /\ \E e \in {getLatestError(errors')} :
                    /\ e # Null
                    /\ e.type = "network"
                    /\ e.recoverable
                    /\ errors' = AddToErrors(errors, maxErrors, e)
       /\ SET_ONLINE_STATUS(TRUE) => (isOnline' = TRUE /\ errors' = errors)]_vars

\* C6: REMOVE_ERROR(id) removes exactly one record, the one with that id, and
\* keeps the others in order; with no such record the snapshot is unchanged.
C6_RemoveExactlyOne ==
    [][\A id \in Ids(errors) \cup {generateErrorId(0, "k3x")} :
          REMOVE_ERROR(id) =>
              IF id \in Ids(errors)
              THEN /\ \E i \in 1..Len(errors) :
                        errors[i].id = id /\ errors' = RemoveAt(errors, i)
                   /\ <<globalError, isOnline, maxErrors>>' = <<globalError, isOnline, maxErrors>>
              ELSE machineVars' = machineVars]_vars

\* C7: CLEAR_ERRORS empties errors and leaves globalError, isOnline and
\* maxErrors as they were.
C7_ClearErrorsFrame ==
    [][EventStep("CLEAR_ERRORS") =>
          /\ errors' = <<>>
          /\ globalError' = globalError
          /\ isOnline' = isOnline
          /\ maxErrors' = maxErrors]_vars

\* C7's case: CLEAR_ERRORS has just been processed after records were added
\* and with a global error set.
C7_Witness ==
    /\ lastEvent = "CLEAR_ERRORS"
    /\ nAdd > 0
    /\ errors = <<>>
    /\ globalError # Null
    /\ maxErrors # DefaultMaxErrors

\* C8: no two records in errors have the same id.
C8_UniqueIds ==
    \A i, j \in 1..Len(errors) : i # j => errors[i].id # errors[j].id

\* C9: an addError call with the type and message of a record an earlier call
\* created, issued less than deduplicationWindow ms after that record's
\* timestamp, appends no record.
C9_DuplicateSuppressed ==
    [][\A input \in MorePayloads, r \in Rnd :
          (/\ ErrorProvider_addError(input, r)
           /\ \E i \in 1..Len(pCreated) :
                 /\ pCreated[i].type = input.type
                 /\ pCreated[i].message = input.message
                 /\ now - pCreated[i].timestamp >= 0
                 /\ now - pCreated[i].timestamp < pWindow)
          => pUpdates' = pUpdates]_vars

\* C10: no record id is passed to onError / enqueueSnackbar a second time.
C10_NotifiedAtMostOnce ==
    \A i, j \in 1..Len(notified) : i # j => notified[i] # notified[j]

\* C11: once the provider has rendered the machine's current snapshot and the
\* toast effect of that render has run, every record in errors has been passed
\* to onError / enqueueSnackbar, also when several ADD_ERROR events were sent
\* between two renders.
C11_AppendedIsNotified ==
    (~effectPending /\ latestError = getLatestError(errors)) =>
        \A i \in 1..Len(errors) : \E j \in 1..Len(notified) : notified[j] = errors[i].id

\* C12: no event makes the machine's assigner throw: every command completes
\* and yields a snapshot, whatever the context of its payload.
C12_CommandsTotal == nThrown = 0

\* C13: on a fresh machine SET_MAX_ERRORS(2), then ADD_ERROR of A, B, C leaves
\* errors = [B, C]; REMOVE_ERROR(B.id) then leaves [C]; SET_MAX_ERRORS(0) then
\* leaves [].
C13_CapacityScenario ==
    /\ (lastEvent = "ADD_ERROR" /\ nAdd = 3) => errors = <<created[2], created[3]>>
    /\ lastEvent = "REMOVE_ERROR" => errors = <<created[3]>>
    /\ (lastEvent = "SET_MAX_ERRORS" /\ nAdd = 3) => errors = <<>>

\* C14: the timestamps of the records in errors never decrease along the list,
\* whatever the wall clock does between two ADD_ERROR events.
C14_TimestampsNonDecreasing ==
    \A i \in 1..(Len(errors) - 1) : errors[i].timestamp <= errors[i + 1].timestamp

\* C15: in the legacy ErrorProvider every record an addError call built and
\* queued for appending was written to console.error once.
C15_ProviderLogsEachRecord == nLogs = Len(pCreated)

\* C16: RadixErrorBoundary's render returns the children as long as no
\* descendant has thrown; a throw puts the caught error in the state with
\* hasError true, and render then returns the fallback element when one is
\* given and otherwise the ErrorFallback with the caught error, the retry
\* handler and fallbackProps; it never returns the children while hasError.
C16_RadixRenders ==
    /\ (rThrows = 0 /\ rLast # "constructor") => rOutput = Children
    /\ rCaught # Null => rState = [hasError |-> TRUE, error |-> rCaught.error]
    /\ (rState.hasError /\ rLast # "getDerivedStateFromError") =>
           /\ rOutput # Children
           /\ rOutput =
                 IF rProps.fallback \notin {Undefined, Null}
                 THEN rProps.fallback
                 ELSE IF rProps.fallbackProps = Undefined
                      THEN [component |-> "ErrorFallback", error |-> rState.error,
                            onRetry |-> "handleRetry"]
                      ELSE [component |-> "ErrorFallback", error |-> rState.error,
                            onRetry |-> "handleRetry",
                            title |-> rProps.fallbackProps.title]

\* C16's case: a descendant threw and render returned the ErrorFallback with
\* the fallbackProps, or the fallback element.
C16_Witness ==
    /\ rState.hasError
    /\ rLast = "render"
    /\ rProps.fallback = Undefined
    /\ rProps.fallbackProps # Undefined
    /\ rOutput.title = "Custom Title"
    /\ rOutput.error = [message |-> "Test error"]

\* C17: componentDidCatch makes, for the error it is given, the console.error
\* calls, then captureException (if given) with the error and a context holding
\* the component stack, then onError (if given) with the error and errorInfo:
\* each once, in this order, and nothing else.
C17_DidCatchCallsInOrder ==
    [][(rCaught # Null /\ rCaught' = Null) =>
          \E e \in Errors :
             /\ e = rCaught.error
             /\ e = rState.error
             /\ rCalls' = rCalls
                   \o <<[fn |-> "console.error", args |-> <<e>>],
                        [fn |-> "console.error", args |-> <<ErrorInfo.componentStack>>]>>
                   \o (IF rProps.captureException
                       THEN <<[fn |-> "captureException",
                               args |-> <<e, [componentStack |-> ErrorInfo.componentStack,
                                              errorBoundary |-> "radix"]>>]>>
                       ELSE <<>>)
                   \o (IF rProps.onError
                       THEN <<[fn |-> "onError", args |-> <<e, ErrorInfo>>]>>
                       ELSE <<>>)]_vars

\* C17's case: two errors were caught with both callbacks given, and
\* componentDidCatch has run for each.
C17_Witness ==
    /\ rProps.captureException
    /\ rProps.onError
    /\ rThrows = 2
    /\ rLast = "componentDidCatch"
    /\ Len(rCalls) = 8
    /\ rCalls[3].fn = "captureException"
    /\ rCalls[4].fn = "onError"
    /\ rCalls[8].args[1] # rCalls[4].args[1]

C19_FallbackWhileHasError ==
    (bState.hasError /\ bLast = "render") =>
        (bOutput # Children /\ "resetError" \in DOMAIN bOutput)

\* C20: componentDidUpdate with resetKeys arrays before and after resets the
\* boundary exactly when it is in the error state and the two arrays differ
\* (an element changed, added or removed).
C20_ResetOnKeysChange ==
    [][(/\ bLast = "rendered"
        /\ bLast' \in {"componentDidUpdate", "reset"}
        /\ bProps.resetKeys # Undefined
        /\ bPrevProps.resetKeys # Undefined)
       => (bLast' = "reset" <=>
              (bState.hasError /\ bProps.resetKeys.keys # bPrevProps.resetKeys.keys))]_vars

\* C21: the toast for a record has variant 'warning' when the record's type
\* is 'validation' and 'error' for every other type, and auto-hides after
\* 5000 ms when the record is recoverable and after 8000 ms when it is not.
C21_ToastVariantAndDuration ==
    \A i \in 1..Len(calls) :
        calls[i].fn = "enqueueSnackbar" =>
            /\ calls[i].result.variant =
                   (IF calls[i].args.type = "validation" THEN "warning" ELSE "error")
            /\ ("recoverable" \in DOMAIN calls[i].args /\ calls[i].args.recoverable) =>
                   calls[i].result.autoHideDuration = 5000
            /\ ("recoverable" \in DOMAIN calls[i].args /\ ~calls[i].args.recoverable) =>
                   calls[i].result.autoHideDuration = 8000

\* C21's case: toasts were shown for a recoverable validation record and for a
\* non-recoverable network record.
C21_Witness ==
    /\ Len(calls) = 2
    /\ calls[1].fn = "enqueueSnackbar"
    /\ calls[1].args.type = "validation"
    /\ calls[1].result = [message |-> "Connection failed", variant |-> "warning",
                          key |-> generateErrorId(0, "k3x"), autoHideDuration |-> 5000,
                          action |-> FALSE]
    /\ calls[2].fn = "enqueueSnackbar"
    /\ calls[2].args.type = "network"
    /\ calls[2].result.variant = "error"
    /\ calls[2].result.autoHideDuration = 8000

\* C24: ErrorFallback renders the retry button exactly when onRetry is given,
\* a click on it calls onRetry, and the details section is rendered exactly
\* when showDetails (the prop, or development mode when the prop is left out)
\* is true and an error is given.
C24_ErrorFallbackParts ==
    \A i \in 1..Len(calls) :
        /\ calls[i].fn = "ErrorFallback" =>
              LET props == calls[i].args.props
                  shown == IF "showDetails" \in DOMAIN props THEN props.showDetails
                           ELSE calls[i].args.hostname = "localhost"
                  given == IF "error" \in DOMAIN props THEN props.error # Null ELSE FALSE
              IN  /\ (calls[i].result.retryButton # Undefined) <=> ("onRetry" \in DOMAIN props)
                  /\ calls[i].result.details <=> (shown /\ given)
        /\ calls[i].fn = "onRetry" =>
              /\ i > 1
              /\ calls[i - 1].fn = "ErrorFallback"
              /\ "onRetry" \in DOMAIN calls[i - 1].args.props

\* C24's case: an ErrorFallback with onRetry, showDetails and an error was
\* rendered with both parts, and its retry button was clicked.
C24_Witness ==
    /\ Len(calls) = 2
    /\ calls[1].fn = "ErrorFallback"
    /\ calls[1].result.retryButton # Undefined
    /\ calls[1].result.details
    /\ calls[2].fn = "onRetry"

\* C25: useErrorToast throws with no enclosing ErrorToastProvider and returns
\* the context value otherwise; useErrorContext throws with no enclosing
\* ErrorProvider and returns the context value otherwise.
C25_HooksThrowOutsideProvider ==
    \A i \in 1..Len(calls) :
        /\ calls[i].fn = "useErrorToast" =>
              calls[i].result =
                 IF calls[i].args.ErrorToastProvider
                 THEN [returns |-> ContextValue("ErrorToastProvider")]
                 ELSE [throws |-> "useErrorToast must be used within an ErrorToastProvider"]
        /\ calls[i].fn = "useErrorContext" =>
              calls[i].result =
                 IF calls[i].args.ErrorProvider
                 THEN [returns |-> ContextValue("ErrorProvider")]
                 ELSE [throws |-> "useErrorContext must be used within an ErrorProvider"]

\* C25's case: useErrorContext was called under an ErrorToastProvider alone
\* and threw, and useErrorToast there returned the value.
C25_Witness ==
    /\ Len(calls) = 2
    /\ calls[1].fn = "useErrorContext"
    /\ calls[1].args = [ErrorToastProvider |-> TRUE, ErrorProvider |-> FALSE]
    /\ "throws" \in DOMAIN calls[1].result
    /\ calls[2].fn = "useErrorToast"
    /\ calls[2].args = [ErrorToastProvider |-> TRUE, ErrorProvider |-> FALSE]
    /\ "returns" \in DOMAIN calls[2].result

\* C22: SET_GLOBAL_ERROR(p) sets globalError to p and leaves errors, isOnline
\* and maxErrors as they were; no other event changes globalError, not even
\* the removal of a record with globalError's id.
C22_GlobalErrorIndependent ==
    [][/\ EventStep("SET_GLOBAL_ERROR") =>
             /\ errors' = errors
             /\ isOnline' = isOnline
             /\ maxErrors' = maxErrors
             /\ (nGlobal' = nGlobal) <=> (globalError' = Null)
             /\ (nGlobal' # nGlobal) <=> (globalError' = ForeignError("none"))
       /\ nAdd' # nAdd => globalError' = globalError
       /\ \A type \in {"REMOVE_ERROR", "CLEAR_ERRORS", "SET_ONLINE_STATUS", "SET_MAX_ERRORS"} :
             EventStep(type) => globalError' = globalError]_vars

\* C22's case: a global error is set, and the record in errors with the same
\* id was removed after it.
C22_Witness ==
    /\ lastEvent = "REMOVE_ERROR"
    /\ globalError = ForeignError("none")
    /\ Len(created) = 1
    /\ created[1].id = globalError.id
    /\ errors = <<>>

\* s is t with some elements left out.
RECURSIVE IsSubsequence(_, _)
IsSubsequence(s, t) ==
    IF s = <<>> THEN TRUE
    ELSE IF t = <<>> THEN FALSE
    ELSE IF Head(s) = Head(t) THEN IsSubsequence(Tail(s), Tail(t))
    ELSE IsSubsequence(s, Tail(t))

\* C23: errors is an order-preserving subsequence of the records ADD_ERROR
\* has built so far, each record exactly as it was built.
C23_RecordsNeverMutated == IsSubsequence(errors, created)

\* C23's case: of two records built, the first was removed and the second is
\* still there as built.
C23_Witness ==
    /\ Len(created) = 2
    /\ lastEvent = "REMOVE_ERROR"
    /\ created[1] # created[2]
    /\ errors = <<created[2]>>

\* C26: after an ADD_ERROR event processed with maxErrors >= 1 the record it
\* built is the last element of errors and what getLatestError returns;
\* getLatestError returns the last element of errors in every state, and null
\* exactly when errors is empty or the state is undefined.
C26_LatestIsLastAdded ==
    [][/\ (nAdd' # nAdd /\ maxErrors >= 1) =>
             /\ errors' # <<>>
             /\ errors'[Len(errors')] = created'[Len(created')]
             /\ getLatestError(errors') = created'[Len(created')]
       /\ errors' # <<>> => getLatestError(errors') = errors'[Len(errors')]
       /\ (getLatestError(errors') = Null) <=> (errors' = <<>>)
       /\ getLatestError(getErrors(Undefined)) = Null
       /\ getErrors([context |-> [errors |-> errors']]) = errors']_vars

\* C26's case: with maxErrors 1 a second record was added and is the only one.
C26_Witness ==
    /\ lastEvent = "ADD_ERROR"
    /\ maxErrors = 1
    /\ Len(created) = 2
    /\ created[1] # created[2]
    /\ errors = <<created[2]>>

\* C27: the record an ADD_ERROR event stores has the id generated at that
\* moment and the Date.now() timestamp, also when the payload carries an id
\* and a timestamp of its own.
C27_IdAndTimestampAssigned ==
    [][nAdd' # nAdd =>
          /\ errors' # <<>>
          /\ \E r \in Rnd : errors'[Len(errors')].id = generateErrorId(now, r)
          /\ errors'[Len(errors')].timestamp = now']_vars

\* C27's case: a payload with its own id and timestamp was stored.
C27_Witness ==
    /\ lastEvent = "ADD_ERROR"
    /\ errors # <<>>
    /\ errors[Len(errors)].message = PayloadWithId.message
    /\ errors[Len(errors)].id # PayloadWithId.id
    /\ errors[Len(errors)].timestamp # PayloadWithId.timestamp

\* The number of calls of fn in a sequence of calls.
CountCalls(cs, fn) == Cardinality({i \in 1..Len(cs) : cs[i].fn = fn})

\* C28: componentDidCatch emits one console.error entry for the error it was
\* given and calls onError (if given) once with the error and errorInfo,
\* whatever onError does, throwing included.
C28_CaughtErrorLoggedAndReported ==
    [][(bCaught # Null /\ bCaught' = Null /\ bThrows' = bThrows) =>
          LET made == SubSeq(bCalls', Len(bCalls) + 1, Len(bCalls'))
              log == [fn |-> "console.error",
                      args |-> <<bCaught.error.message, bCaught.errorInfo.componentStack>>]
              report == [fn |-> "onError", args |-> <<bCaught.error, bCaught.errorInfo>>]
          IN  /\ Cardinality({i \in 1..Len(made) : made[i] = log}) = 1
              /\ Cardinality({i \in 1..Len(made) : made[i] = report})
                    = (IF Truthy(bProps.onError) THEN 1 ELSE 0)
              /\ CountCalls(made, "onError") = (IF Truthy(bProps.onError) THEN 1 ELSE 0)
              /\ CountCalls(made, "console.error") = 1]_vars

\* C28's case: componentDidCatch has run with an onError that returns.
C28_Witness ==
    /\ bLast = "componentDidCatch"
    /\ Truthy(bProps.onError)
    /\ CountCalls(bCalls, "onError") = 1
    /\ CountCalls(bCalls, "console.error") = 1

C30_BridgeSendsOrSuppresses ==
    [][Len(calls') = Len(calls) + 1 =>
          LET event == calls'[Len(calls')]
              detail == event.args
              listed ==
                  \/ /\ detail.operation # Undefined
                     /\ \E k \in 1..Len(authOperations \o passwordResetOperations) :
                           detail.operation.chars
                             = (authOperations \o passwordResetOperations)[k]
                  \/ /\ detail.message # Undefined
                     /\ \E k \in 1..Len(credentialPhrases \o rateLimitPhrases) :
                           Includes(toLowerCase(detail.message.chars),
                                    (credentialPhrases \o rateLimitPhrases)[k])
              sent(type) ==
                  /\ nAdd' = nAdd + 1
                  /\ Len(errors') = Len(errors) + 1
                  /\ errors'[Len(errors')].type = type
                  /\ errors'[Len(errors')].recoverable
          IN  /\ event.fn = "apollo-network-error" => sent("network")
              /\ event.fn = "apollo-graphql-error" =>
                    IF listed THEN nAdd' = nAdd /\ machineVars' = machineVars
                    ELSE sent("general")]_vars
====
